---------------------------- MODULE Spec2Model ----------------------------
(***************************************************************************)
(* Model of library/sf_user_account.py: the Ansible module that creates,   *)
(* updates and deletes cluster-admin accounts on a SolidFire cluster.      *)
(*                                                                         *)
(* One invocation of the module is main(): the constructor __init__ reads  *)
(* the parameters and derives self.access from the role, apply() looks the *)
(* account up by id, decides, and performs at most one remote call.        *)
(* The cluster (the SDK object self.sfe talks to) is the variable          *)
(* `cluster`.  Every remote call may fail (the SDK raises).                *)
(*                                                                         *)
(* Vocabulary: the permission tokens are the lower-case strings the code   *)
(* uses ('reporting', 'volumes', ...); None is the string "None" for       *)
(* string-valued fields, NoneId for account_id and NoneList for a list.    *)
(***************************************************************************)
EXTENDS Integers, Sequences, FiniteSets, TLC

(* ------------------------------ bounds -------------------------------- *)

\* cluster_admin_id values range over 1..MaxId
MaxId == 2

\* how many times in a row the caller runs the module with the same parameters
MaxRuns == 2

(* ----------------------------- vocabulary ----------------------------- *)

\* account_id=dict(required=False, type='int'): an absent account_id is None
NoneId == 0

None == "None"

NoneList == <<"None">>

Callers == {1, 2}

Ids == 1..MaxId

ToSet(list) == {list[i] : i \in DOMAIN list}

States == {"present", "absent"}

Names == {"ops1", "ops2"}

Roles == {"administrator", "system engineer", "operator", None}

UserTypes == {"cluster", "ldap", None}

Passwords == {"p1", None}

\* the `access` parameter (a str); the module accepts it and never reads it
AccessParams == {"read", None}

ParamsSet ==
    [state : States, account_name : Names, account_id : {NoneId} \cup Ids,
     role : Roles, user_type : UserTypes, account_password : Passwords,
     access : AccessParams, check_mode : BOOLEAN]

(* ------------------------------ cluster ------------------------------- *)

NoAccount ==
    [cluster_admin_id |-> NoneId, username |-> None, access |-> NoneList,
     account_password |-> None, auth_method |-> None]

Account(id, name, password, access, method) ==
    [cluster_admin_id |-> id, username |-> name, access |-> access,
     account_password |-> password, auth_method |-> method]

\* what list_cluster_admins returns: the accounts of the cluster, by id
RECURSIVE AdminsFrom(_, _)
AdminsFrom(c, i) ==
    IF i > MaxId THEN <<>>
    ELSE (IF c[i] # NoAccount THEN <<c[i]>> ELSE <<>>) \o AdminsFrom(c, i + 1)

ListClusterAdmins(c) == AdminsFrom(c, 1)

UsedNames(c) == {c[i].username : i \in {j \in Ids : c[j] # NoAccount}}

FreeIds(c) == {i \in Ids : c[i] = NoAccount}

FreshId(c) == CHOOSE i \in FreeIds(c) : \A j \in FreeIds(c) : i <= j

\* add_cluster_admin / add_ldap_cluster_admin succeed unless the username is taken
\* (DuplicateUsername) or the cluster has no room left
CanAdd(c, username) == username \notin UsedNames(c) /\ FreeIds(c) # {}

AddClusterAdmin(c, username, password, access) ==
    [c EXCEPT ![FreshId(c)] = Account(FreshId(c), username, password, access, "Cluster")]

AddLdapClusterAdmin(c, username, access) ==
    [c EXCEPT ![FreshId(c)] = Account(FreshId(c), username, None, access, "Ldap")]

\* modify_cluster_admin / remove_cluster_admin need the id to exist
HasAdmin(c, id) == id \in Ids /\ c[id] # NoAccount

ModifyClusterAdmin(c, id, password, access) ==
    [c EXCEPT ![id] = [@ EXCEPT !.access = access,
                                !.account_password =
                                    IF password # None THEN password ELSE @]]

RemoveClusterAdmin(c, id) == [c EXCEPT ![id] = NoAccount]

(* ------------------------------ __init__ ------------------------------ *)

AdminAccess == <<"reporting", "volumes", "nodes", "accounts", "drives">>

EngineerAccess == <<"reporting", "volumes">>

DefaultAccess == <<"nodes", "accounts", "drives">>

ResolveWrongFallback(role) ==
    IF role = "administrator" THEN AdminAccess
    ELSE IF role = "system engineer" THEN EngineerAccess
    ELSE <<"read">>

\* lines 136-141: self.access from self.role
Resolve(role) ==
    IF role = "administrator" THEN AdminAccess
    ELSE IF role = "system engineer" THEN EngineerAccess
    ELSE DefaultAccess

NoObj ==
    [state |-> None, account_name |-> None, account_id |-> NoneId, role |-> None,
     user_type |-> None, account_password |-> None, access |-> NoneList]

\* lines 126-141: the state variables set from module.params
NewObj(p) ==
    [state |-> p.state, account_name |-> p.account_name, account_id |-> p.account_id,
     role |-> p.role, user_type |-> p.user_type,
     account_password |-> p.account_password, access |-> Resolve(p.role)]

(* ------------------------------- state -------------------------------- *)

VARIABLES
    cluster,   \* the cluster's admin accounts, by cluster_admin_id
    desired,   \* per caller: module.params and module.check_mode
    pc,        \* per caller: where the invocation stands
    run,       \* per caller: number of the invocation (1..MaxRuns)
    obj,       \* per caller: the SolidFireUserAccount object's fields
    local,     \* per caller: the local variables of apply()
    calls,     \* per caller: the remote calls this invocation has issued
    result,    \* per caller: how the invocation ended
    prev       \* per caller: how the previous invocation ended

vars == <<cluster, desired, pc, run, obj, local, calls, result, prev>>

NoLocal ==
    [account_detail |-> NoAccount, changed |-> FALSE, account_exists |-> FALSE,
     update_account |-> FALSE, result_message |-> ""]

NoResult == [kind |-> "none", changed |-> FALSE, msg |-> ""]

IdleParams ==
    [state |-> "absent", account_name |-> "ops1", account_id |-> NoneId,
     role |-> None, user_type |-> None, account_password |-> None,
     access |-> None, check_mode |-> TRUE]

Call(op, id, username, password, access, eula, ok) ==
    [op |-> op, cluster_admin_id |-> id, username |-> username,
     password |-> password, access |-> access, accept_eula |-> eula, ok |-> ok]

MutatingOps ==
    {"add_cluster_admin", "add_ldap_cluster_admin", "modify_cluster_admin",
     "remove_cluster_admin"}

\* the calls of caller p's current invocation that are create/modify/remove
MutatingCalls(p) == {i \in DOMAIN calls[p] : calls[p][i].op \in MutatingOps}

(* accounts a cluster can hold before the module runs: account 1 with one    *)
(* of three access lists (one of them the engineer's tokens in the other     *)
(* order), every other account an administrator                              *)
ObservedAccess == {EngineerAccess, <<"volumes", "reporting">>, DefaultAccess}

UserNameOf(i) == IF i = 1 THEN "ops1" ELSE IF i = 2 THEN "ops2" ELSE "ops3"

InitAccounts(i) ==
    IF i = 1
    THEN {NoAccount} \cup {Account(1, UserNameOf(1), "p0", a, "Cluster") : a \in ObservedAccess}
    ELSE {NoAccount, Account(i, UserNameOf(i), "p0", AdminAccess, "Cluster")}

InitClusters == {c \in [Ids -> UNION {InitAccounts(i) : i \in Ids}] :
                    \A i \in Ids : c[i] \in InitAccounts(i)}

Init ==
    /\ cluster \in InitClusters
    /\ \E d \in ParamsSet : desired = [p \in Callers |-> IF p = 1 THEN d ELSE IdleParams]
    /\ pc = [p \in Callers |-> IF p = 1 THEN "start" ELSE "off"]
    /\ run = [p \in Callers |-> 1]
    /\ obj = [p \in Callers |-> NoObj]
    /\ local = [p \in Callers |-> NoLocal]
    /\ calls = [p \in Callers |-> <<>>]
    /\ result = [p \in Callers |-> NoResult]
    /\ prev = [p \in Callers |-> NoResult]

(* ------------------------------ __init__ ------------------------------ *)

\* lines 107-146: read the parameters, derive self.access, connect
Construct(p) ==
    /\ pc[p] = "start"
    /\ obj' = [obj EXCEPT ![p] = NewObj(desired[p])]
    /\ \E has_sf_sdk \in BOOLEAN :
         IF has_sf_sdk
         THEN /\ pc' = [pc EXCEPT ![p] = "lookup"]
              /\ UNCHANGED result
         ELSE /\ pc' = [pc EXCEPT ![p] = "done"]
              /\ result' = [result EXCEPT ![p] =
                    [kind |-> "fail_json", changed |-> FALSE,
                     msg |-> "Unable to import the SolidFire Python SDK"]]
    /\ UNCHANGED <<cluster, desired, run, local, calls, prev>>

(* ------------------------ get_user_account_by_id ---------------------- *)

\* `return account` after the loop instead of inside the if: the loop variable
FindByIdLoopVariable(list, account_id) ==
    IF list = <<>> THEN NoAccount ELSE list[Len(list)]

\* lines 158-162: the first account of the list whose id is self.account_id
RECURSIVE FindById(_, _)
FindById(list, account_id) ==
    IF list = <<>> THEN NoAccount
    ELSE IF account_id = Head(list).cluster_admin_id THEN Head(list)
    ELSE FindById(Tail(list), account_id)

\* lines 148-162 (called at line 235); list_cluster_admins may raise, and nothing
\* catches it
GetUserAccountById(p) ==
    /\ pc[p] = "lookup"
    /\ \E ok \in BOOLEAN :
         /\ calls' = [calls EXCEPT ![p] =
               Append(@, Call("list_cluster_admins", NoneId, None, None, NoneList, FALSE, ok))]
         /\ IF ok
            THEN /\ local' = [local EXCEPT ![p] =
                       [NoLocal EXCEPT !.account_detail =
                           FindById(ListClusterAdmins(cluster), obj[p].account_id)]]
                 /\ pc' = [pc EXCEPT ![p] = "decide"]
                 /\ UNCHANGED result
            ELSE /\ pc' = [pc EXCEPT ![p] = "done"]
                 /\ result' = [result EXCEPT ![p] =
                       [kind |-> "exception", changed |-> FALSE, msg |-> "list_cluster_admins"]]
                 /\ UNCHANGED local
    /\ UNCHANGED <<cluster, desired, run, obj, prev>>

(* -------------------------- apply(): deciding -------------------------- *)

\* line 237: `if account_detail:`
Found(detail) == detail # NoAccount

\* line 246: the observed access list against self.access, as Python lists
AccessDiffers(detail, o) ==
    /\ detail.access # NoneList
    /\ o.access # NoneList
    /\ detail.access # o.access

\* lines 250-251: `account_detail.cluster_admin_id is not None and
\* self._accountid is not None ...`; the attribute _accountid is assigned nowhere,
\* so evaluating the second conjunct raises AttributeError
RaisesAttributeError(detail, o) ==
    /\ Found(detail)
    /\ o.state = "present"
    /\ ~AccessDiffers(detail, o)
    /\ detail.cluster_admin_id # NoneId

\* lines 255-256: reached only when line 250 stopped at its first conjunct
PasswordDiffers(detail, o) ==
    /\ detail.account_password # None
    /\ o.account_password # None
    /\ detail.account_password # o.account_password

DecideAbsentIgnored(detail, o) ==
    IF Found(detail)
    THEN [account_exists |-> TRUE,
          update_account |-> o.state = "present"
                              /\ (AccessDiffers(detail, o) \/ PasswordDiffers(detail, o)),
          changed |-> o.state = "present"
                       /\ (AccessDiffers(detail, o) \/ PasswordDiffers(detail, o))]
    ELSE [account_exists |-> FALSE, update_account |-> FALSE,
          changed |-> o.state = "present"]

\* lines 232-262: account_exists, update_account and changed, when nothing raises
Decision(detail, o) ==
    IF Found(detail)
    THEN [account_exists |-> TRUE,
          update_account |-> o.state = "present"
                              /\ (AccessDiffers(detail, o) \/ PasswordDiffers(detail, o)),
          changed |-> \/ o.state = "absent"
                      \/ o.state = "present"
                          /\ (AccessDiffers(detail, o) \/ PasswordDiffers(detail, o))]
    ELSE [account_exists |-> FALSE, update_account |-> FALSE,
          changed |-> o.state = "present"]

\* lines 237-264
Decide(p) ==
    /\ pc[p] = "decide"
    /\ IF RaisesAttributeError(local[p].account_detail, obj[p])
       THEN /\ pc' = [pc EXCEPT ![p] = "done"]
            /\ result' = [result EXCEPT ![p] =
                  [kind |-> "exception", changed |-> FALSE, msg |-> "AttributeError"]]
            /\ UNCHANGED local
       ELSE /\ LET d == Decision(local[p].account_detail, obj[p])
               IN local' = [local EXCEPT ![p].account_exists = d.account_exists,
                                         ![p].update_account = d.update_account,
                                         ![p].changed = d.changed]
            /\ pc' = [pc EXCEPT ![p] = "execute"]
            /\ UNCHANGED result
    /\ UNCHANGED <<cluster, desired, run, obj, calls, prev>>

(* ------------------------- apply(): executing -------------------------- *)

BranchIgnoringCheckMode(p) ==
    IF ~local[p].changed THEN "unchanged"
    ELSE IF obj[p].state = "present"
    THEN IF ~local[p].account_exists
         THEN IF obj[p].user_type = "ldap" THEN "create_ldap_user"
              ELSE IF obj[p].user_type = "cluster" THEN "create_cluster_user"
              ELSE "nothing"
         ELSE "update_account"
    ELSE IF obj[p].state = "absent" THEN "delete_account"
    ELSE "nothing"

\* lines 266-285: which statement of the if-chain runs
Branch(p) ==
    IF ~local[p].changed THEN "unchanged"
    ELSE IF desired[p].check_mode THEN "check_mode"
    ELSE IF obj[p].state = "present"
    THEN IF ~local[p].account_exists
         THEN IF obj[p].user_type = "ldap" THEN "create_ldap_user"
              ELSE IF obj[p].user_type = "cluster" THEN "create_cluster_user"
              ELSE "nothing"
         ELSE "update_account"
    ELSE IF obj[p].state = "absent" THEN "delete_account"
    ELSE "nothing"

RetryPc == "execute"

\* module.fail_json ends the process
FailPc == "done"

\* `except: pass`: the failure is dropped and apply() goes on to exit_json
FailSwallowed(p, msg) ==
    /\ pc' = [pc EXCEPT ![p] = "exit"]
    /\ UNCHANGED <<cluster, local, result>>

\* the failure sends apply() back to its lookup
FailLookupAgain(p, msg) ==
    /\ pc' = [pc EXCEPT ![p] = "lookup"]
    /\ UNCHANGED <<cluster, local, result>>

\* the except: branches (lines 176-179, 192-195, 208-211, 222-225)
FailJson(p, msg) ==
    /\ pc' = [pc EXCEPT ![p] = FailPc]
    /\ result' = [result EXCEPT ![p] = [kind |-> "fail_json", changed |-> FALSE, msg |-> msg]]
    /\ UNCHANGED <<cluster, local>>

\* after a successful call apply() fetches the account list again
SucceedThenRefetch(p, msg) ==
    /\ pc' = [pc EXCEPT ![p] = "lookup"]
    /\ local' = [local EXCEPT ![p].result_message = msg]
    /\ UNCHANGED result

Succeed(p, msg) ==
    /\ pc' = [pc EXCEPT ![p] = "exit"]
    /\ local' = [local EXCEPT ![p].result_message = msg]
    /\ UNCHANGED result

\* lines 266-269 and the paths of 271-285 that call nothing
SkipChanges(p) ==
    /\ pc[p] = "execute"
    /\ Branch(p) \in {"unchanged", "check_mode", "nothing"}
    /\ Succeed(p, IF Branch(p) = "check_mode" THEN "Check mode, skipping changes" ELSE "")
    /\ UNCHANGED <<cluster, desired, run, obj, calls, prev>>

\* lines 181-195, called at line 274
CreateLdapUser(p) ==
    /\ pc[p] = "execute"
    /\ Branch(p) = "create_ldap_user"
    /\ \E ok \in BOOLEAN :
         LET done == ok /\ CanAdd(cluster, obj[p].account_name)
         IN /\ calls' = [calls EXCEPT ![p] =
                  Append(@, Call("add_ldap_cluster_admin", NoneId, obj[p].account_name,
                                 None, obj[p].access, TRUE, done))]
            /\ IF done
               THEN /\ cluster' = AddLdapClusterAdmin(cluster, obj[p].account_name, obj[p].access)
                    /\ Succeed(p, "LDAP user account created")
               ELSE FailJson(p, "Error creating ldap user account")
    /\ UNCHANGED <<desired, run, obj, prev>>

\* lines 164-179, called at line 277
CreateClusterUser(p) ==
    /\ pc[p] = "execute"
    /\ Branch(p) = "create_cluster_user"
    /\ \E ok \in BOOLEAN :
         LET done == ok /\ CanAdd(cluster, obj[p].account_name)
         IN /\ calls' = [calls EXCEPT ![p] =
                  Append(@, Call("add_cluster_admin", NoneId, obj[p].account_name,
                                 obj[p].account_password, obj[p].access, TRUE, done))]
            /\ IF done
               THEN /\ cluster' = AddClusterAdmin(cluster, obj[p].account_name,
                                                  obj[p].account_password, obj[p].access)
                    /\ Succeed(p, "Cluster user account created")
               ELSE FailJson(p, "Error creating cluster user account")
    /\ UNCHANGED <<desired, run, obj, prev>>

\* lines 197-211, called at line 280
UpdateAccount(p) ==
    /\ pc[p] = "execute"
    /\ Branch(p) = "update_account"
    /\ \E ok \in BOOLEAN :
         LET done == ok /\ HasAdmin(cluster, obj[p].account_id)
         IN /\ calls' = [calls EXCEPT ![p] =
                  Append(@, Call("modify_cluster_admin", obj[p].account_id, None,
                                 obj[p].account_password, obj[p].access, FALSE, done))]
            /\ IF done
               THEN /\ cluster' = ModifyClusterAdmin(cluster, obj[p].account_id,
                                                     obj[p].account_password, obj[p].access)
                    /\ Succeed(p, "User account updated succesfully")
               ELSE FailJson(p, "Error updating user account")
    /\ UNCHANGED <<desired, run, obj, prev>>

\* lines 213-225, called at line 284
DeleteAccount(p) ==
    /\ pc[p] = "execute"
    /\ Branch(p) = "delete_account"
    /\ \E ok \in BOOLEAN :
         LET done == ok /\ HasAdmin(cluster, obj[p].account_id)
         IN /\ calls' = [calls EXCEPT ![p] =
                  Append(@, Call("remove_cluster_admin", obj[p].account_id, None,
                                 None, NoneList, FALSE, done))]
            /\ IF done
               THEN /\ cluster' = RemoveClusterAdmin(cluster, obj[p].account_id)
                    /\ Succeed(p, "Account deleted successfully")
               ELSE FailJson(p, "Error deleting user account")
    /\ UNCHANGED <<desired, run, obj, prev>>

\* a check-mode run reports changed=False whatever was decided
ExitJsonDryUnchanged(p) ==
    /\ pc[p] = "exit"
    /\ pc' = [pc EXCEPT ![p] = "done"]
    /\ result' = [result EXCEPT ![p] =
          [kind |-> "exit_json", changed |-> local[p].changed /\ ~desired[p].check_mode,
           msg |-> local[p].result_message]]
    /\ UNCHANGED <<cluster, desired, run, obj, local, calls, prev>>

\* line 287
ExitJson(p) ==
    /\ pc[p] = "exit"
    /\ pc' = [pc EXCEPT ![p] = "done"]
    /\ result' = [result EXCEPT ![p] =
          [kind |-> "exit_json", changed |-> local[p].changed,
           msg |-> local[p].result_message]]
    /\ UNCHANGED <<cluster, desired, run, obj, local, calls, prev>>

\* lines 289-291: the caller runs the module again, with the same parameters,
\* after a run that ended in exit_json
Main(p) ==
    /\ pc[p] = "done"
    /\ result[p].kind = "exit_json"
    /\ run[p] < MaxRuns
    /\ run' = [run EXCEPT ![p] = @ + 1]
    /\ prev' = [prev EXCEPT ![p] = result[p]]
    /\ pc' = [pc EXCEPT ![p] = "start"]
    /\ obj' = [obj EXCEPT ![p] = NoObj]
    /\ local' = [local EXCEPT ![p] = NoLocal]
    /\ calls' = [calls EXCEPT ![p] = <<>>]
    /\ result' = [result EXCEPT ![p] = NoResult]
    /\ UNCHANGED <<cluster, desired>>

Step(p) ==
    \/ Construct(p)
    \/ GetUserAccountById(p)
    \/ Decide(p)
    \/ SkipChanges(p)
    \/ CreateLdapUser(p)
    \/ CreateClusterUser(p)
    \/ UpdateAccount(p)
    \/ DeleteAccount(p)
    \/ ExitJson(p)
    \/ Main(p)

Next == \E p \in Callers : Step(p)

Spec == Init /\ [][Next]_vars

\* one invocation of the module by caller p: lines 289-291, __init__ then apply()
RunOnce(p) ==
    \/ Construct(p)
    \/ GetUserAccountById(p)
    \/ Decide(p)
    \/ SkipChanges(p)
    \/ CreateLdapUser(p)
    \/ CreateClusterUser(p)
    \/ UpdateAccount(p)
    \/ DeleteAccount(p)
    \/ ExitJson(p)

(* The same play run first in check mode (caller 1), then for real (caller   *)
(* 2), on the cluster the check-mode run saw.                                *)
InitDry ==
    /\ cluster \in InitClusters
    /\ \E d \in ParamsSet :
         /\ d.check_mode
         /\ desired = [p \in Callers |-> IF p = 1 THEN d ELSE [d EXCEPT !.check_mode = FALSE]]
    /\ pc = [p \in Callers |-> "start"]
    /\ run = [p \in Callers |-> 1]
    /\ obj = [p \in Callers |-> NoObj]
    /\ local = [p \in Callers |-> NoLocal]
    /\ calls = [p \in Callers |-> <<>>]
    /\ result = [p \in Callers |-> NoResult]
    /\ prev = [p \in Callers |-> NoResult]

\* the real run (caller 2) starts when the check-mode run (caller 1) is over
NextDry == \E p \in Callers : (p = 1 \/ pc[1] = "done") /\ RunOnce(p)

SpecDry == InitDry /\ [][NextDry]_vars

(* Two callers run the module once each, at the same time, against the same  *)
(* cluster: nothing in the module locks the account between its lookup and   *)
(* its remote call.                                                          *)
RaceParams ==
    {d \in ParamsSet :
        /\ ~d.check_mode
        /\ d.account_name = "ops2"
        /\ d.role = "system engineer"
        /\ d.user_type \in {"cluster", "ldap"}
        /\ d.account_password = "p1"
        /\ d.access = None}

InitRace ==
    /\ cluster \in InitClusters
    /\ desired \in [Callers -> RaceParams]
    /\ pc = [p \in Callers |-> "start"]
    /\ run = [p \in Callers |-> 1]
    /\ obj = [p \in Callers |-> NoObj]
    /\ local = [p \in Callers |-> NoLocal]
    /\ calls = [p \in Callers |-> <<>>]
    /\ result = [p \in Callers |-> NoResult]
    /\ prev = [p \in Callers |-> NoResult]

NextRace == \E p \in Callers : RunOnce(p)

SpecRace == InitRace /\ [][NextRace]_vars

(* ------------------------------- claims -------------------------------- *)

\* the lookup of caller p's invocation has returned
LookedUp(p) == calls[p] # <<>> /\ calls[p][1].ok

\* the invocation of caller p is past the decision
Decided(p) == LookedUp(p) /\ pc[p] \in {"execute", "exit", "done"}

\* the permission set the design calls effective: the access override when one
\* is supplied, else the set the role resolves to
EffectiveAccess(d) == IF d.access # None THEN {d.access} ELSE ToSet(Resolve(d.role))

LastCall(p) == calls[p][Len(calls[p])]

\* state=present with user_type cluster and no password, or a creation
\* (no account_id) with a user_type that is neither cluster nor ldap
Inconsistent(d) ==
    /\ d.state = "present"
    /\ \/ d.user_type = "cluster" /\ d.account_password = None
       \/ d.account_id = NoneId /\ d.user_type \notin {"cluster", "ldap"}

(* C1: idempotence of reconcile.  When a run without check mode, on a        *)
(* consistent desired record, has ended successfully with changed=true, the  *)
(* next run with the same parameters on the cluster it left issues no        *)
(* create/modify/remove call, decides changed=false and returns              *)
(* changed=false (it does not fail after its lookup, nor raise).             *)
C1_SecondRunIsNoOp ==
    \A p \in Callers :
        (run[p] > 1 /\ prev[p].kind = "exit_json" /\ prev[p].changed
            /\ ~desired[p].check_mode /\ ~Inconsistent(desired[p]))
        => /\ MutatingCalls(p) = {}
           /\ ~local[p].changed
           /\ result[p].kind \in {"none", "exit_json"} \/ ~LookedUp(p)
           /\ ~result[p].changed

(* C2: dry-run non-mutation.  No step of an invocation in check mode issues  *)
(* add_cluster_admin, add_ldap_cluster_admin, modify_cluster_admin or        *)
(* remove_cluster_admin, and none changes the cluster's account list.        *)
C2_DryRunNeverMutates ==
    [][\A p \in Callers :
          (desired[p].check_mode /\ <<pc[p], calls[p]>>' # <<pc[p], calls[p]>>)
          => /\ cluster' = cluster
             /\ \A i \in DOMAIN calls'[p] : calls'[p][i].op \notin MutatingOps]_vars

\* a check-mode run that decided a change and returned changed=true without a call
C2_Witness ==
    \E p \in Callers :
        /\ desired[p].check_mode
        /\ pc[p] = "done"
        /\ result[p].kind = "exit_json"
        /\ result[p].changed
        /\ MutatingCalls(p) = {}

(* C3: permissions are compared as sets.  With state=present, the account    *)
(* found, no password supplied and the observed access list holding the same *)
(* tokens as the desired one (in any order), the decision is not Update and  *)
(* modify_cluster_admin is not called.                                       *)
C3_OrderDoesNotTriggerUpdate ==
    \A p \in Callers :
        (/\ LookedUp(p)
         /\ obj[p].state = "present"
         /\ Found(local[p].account_detail)
         /\ obj[p].account_password = None
         /\ ToSet(local[p].account_detail.access) = ToSet(obj[p].access))
        => /\ ~local[p].update_account
           /\ ~local[p].changed
           /\ MutatingCalls(p) = {}

(* C4: a supplied access override wins over the role.  The access argument   *)
(* of every add_cluster_admin, add_ldap_cluster_admin and                    *)
(* modify_cluster_admin call is the override, and an account found with      *)
(* state=present whose permissions are not the override is updated.          *)
C4_OverrideWins ==
    \A p \in Callers :
        desired[p].access # None
        => /\ \A i \in MutatingCalls(p) :
                 calls[p][i].op # "remove_cluster_admin"
                 => ToSet(calls[p][i].access) = {desired[p].access}
           /\ (/\ Decided(p)
               /\ obj[p].state = "present"
               /\ Found(local[p].account_detail)
               /\ ToSet(local[p].account_detail.access) # {desired[p].access})
              => local[p].update_account

(* C5: the no-op of Scenario B.  With state=present, the account found, its  *)
(* permissions equal to the effective desired set and no password supplied,  *)
(* the invocation ends in exit_json with changed=false and has issued no     *)
(* create/modify/remove call; it does not fail or raise.                     *)
C5_EqualAccountIsNoOp ==
    \A p \in Callers :
        (/\ LookedUp(p)
         /\ pc[p] = "done"
         /\ obj[p].state = "present"
         /\ Found(local[p].account_detail)
         /\ obj[p].account_password = None
         /\ ToSet(local[p].account_detail.access) = EffectiveAccess(desired[p]))
        => /\ result[p].kind = "exit_json"
           /\ ~result[p].changed
           /\ MutatingCalls(p) = {}

(* C6: an invocation issues at most one create/modify/remove call, whatever  *)
(* the parameters, the check mode and the cluster, also when a call fails.   *)
C6_AtMostOneMutatingCall ==
    \A p \in Callers : Cardinality(MutatingCalls(p)) <= 1

\* an update where both the permissions and the password differ: one modify call
C6_Witness ==
    \E p \in Callers :
        /\ pc[p] = "done"
        /\ result[p].kind = "exit_json"
        /\ obj[p].account_password # None
        /\ AccessDiffers(local[p].account_detail, obj[p])
        /\ Cardinality(MutatingCalls(p)) = 1
        /\ LastCall(p).op = "modify_cluster_admin"

(* C7: state=absent without check mode.  The lookup finds an account exactly *)
(* when the cluster holds one with id account_id.  When it does,             *)
(* remove_cluster_admin(account_id) is the one mutating call issued and,     *)
(* the call succeeding, the account is gone and changed=true is returned;    *)
(* when it does not, no mutating call is issued and changed=false is         *)
(* returned.  (A remove call that fails ends the run in fail_json.)          *)
C7_AbsentRemovesIffFound ==
    \A p \in Callers :
        (obj[p].state = "absent" /\ ~desired[p].check_mode /\ LookedUp(p))
        => LET found == Found(local[p].account_detail)
               id == obj[p].account_id
           IN /\ pc[p] \in {"decide", "execute"} => (found <=> HasAdmin(cluster, id))
              /\ pc[p] = "execute" => (local[p].changed <=> found)
              /\ (pc[p] \in {"exit", "done"} /\ found)
                 => /\ Cardinality(MutatingCalls(p)) = 1
                    /\ LastCall(p).op = "remove_cluster_admin"
                    /\ LastCall(p).cluster_admin_id = id
                    /\ LastCall(p).ok => ~HasAdmin(cluster, id)
                    /\ (LastCall(p).ok /\ pc[p] = "done")
                       => result[p].kind = "exit_json" /\ result[p].changed
              /\ (pc[p] \in {"exit", "done"} /\ ~found)
                 => /\ MutatingCalls(p) = {}
                    /\ pc[p] = "done" => result[p].kind = "exit_json" /\ ~result[p].changed
              /\ result[p].changed => found

\* Scenario D: the account was found, removed, and changed=true returned
C7_Witness ==
    \E p \in Callers :
        /\ obj[p].state = "absent"
        /\ ~desired[p].check_mode
        /\ pc[p] = "done"
        /\ Found(local[p].account_detail)
        /\ LastCall(p).op = "remove_cluster_admin"
        /\ LastCall(p).ok
        /\ result[p].changed
        /\ ~HasAdmin(cluster, obj[p].account_id)

(* C8: state=present, no account found, no check mode.  user_type cluster:   *)
(* add_cluster_admin is called with the desired name, the desired password,  *)
(* the effective permission set and accept_eula=True; user_type ldap:        *)
(* add_ldap_cluster_admin with the desired name, the effective permission    *)
(* set, accept_eula=True and no password.  It is the only mutating call, and *)
(* a run that returns returns changed=true.                                  *)
C8_CreateByUserType ==
    \A p \in Callers :
        (/\ LookedUp(p)
         /\ pc[p] \in {"exit", "done"}
         /\ obj[p].state = "present"
         /\ ~desired[p].check_mode
         /\ ~Found(local[p].account_detail)
         /\ desired[p].user_type \in {"cluster", "ldap"})
        => /\ Cardinality(MutatingCalls(p)) = 1
           /\ LastCall(p).op = IF desired[p].user_type = "cluster"
                               THEN "add_cluster_admin" ELSE "add_ldap_cluster_admin"
           /\ LastCall(p).username = desired[p].account_name
           /\ LastCall(p).password = IF desired[p].user_type = "cluster"
                                     THEN desired[p].account_password ELSE None
           /\ ToSet(LastCall(p).access) = EffectiveAccess(desired[p])
           /\ LastCall(p).accept_eula
           /\ result[p].kind = "exit_json" => result[p].changed

(* C9: the Access Resolver.  Once the object is constructed, self.access     *)
(* holds exactly {reporting, volumes, nodes, accounts, drives} for role      *)
(* "administrator", exactly {reporting, volumes} for "system engineer" and   *)
(* exactly {nodes, accounts, drives} for every other role, an absent one     *)
(* included.                                                                 *)
C9_ResolverTable ==
    \A p \in Callers :
        pc[p] \notin {"off", "start"}
        => ToSet(obj[p].access) =
              IF desired[p].role = "administrator"
              THEN {"reporting", "volumes", "nodes", "accounts", "drives"}
              ELSE IF desired[p].role = "system engineer"
              THEN {"reporting", "volumes"}
              ELSE {"nodes", "accounts", "drives"}

\* a constructed object whose role is neither of the two named ones
C9_Witness ==
    \E p \in Callers :
        /\ pc[p] = "lookup"
        /\ desired[p].role = "operator"
        /\ obj[p].access = <<"nodes", "accounts", "drives">>

(* C10: an internally inconsistent desired record is rejected before any     *)
(* remote call: the invocation issues neither list_cluster_admins nor a      *)
(* create/modify/remove call and ends in a failure.                          *)
C10_InconsistentRejectedEarly ==
    \A p \in Callers :
        Inconsistent(desired[p])
        => /\ calls[p] = <<>>
           /\ pc[p] = "done" => result[p].kind = "fail_json"

\* a create/modify/remove call of caller p's invocation has failed
SomeMutatingCallFailed(p) == \E i \in MutatingCalls(p) : ~calls[p][i].ok

(* C11: a failing remote operation ends the invocation in an error.  Once a  *)
(* create, modify or remove call has failed, the invocation is over with     *)
(* fail_json: no exit_json result (changed or not) is returned, the failed   *)
(* call is the only mutating call and the last remote call of the            *)
(* invocation.                                                               *)
C11_RemoteFailureIsAnError ==
    \A p \in Callers :
        SomeMutatingCallFailed(p)
        => /\ pc[p] = "done"
           /\ result[p].kind = "fail_json"
           /\ ~result[p].changed
           /\ Cardinality(MutatingCalls(p)) = 1
           /\ ~LastCall(p).ok
           /\ LastCall(p).op \in MutatingOps

\* a remove call on an account the lookup found has failed
C11_Witness ==
    \E p \in Callers :
        /\ SomeMutatingCallFailed(p)
        /\ LastCall(p).op = "remove_cluster_admin"
        /\ Found(local[p].account_detail)
        /\ result[p].kind = "fail_json"

(* C12: changed reflects what was done.  A run without check mode that      *)
(* returns through exit_json returns changed=true exactly when it issued     *)
(* one create, modify or remove call; changed=true is never returned by a    *)
(* run that issued none.                                                     *)
C12_ChangedIffMutated ==
    \A p \in Callers :
        (pc[p] = "done" /\ result[p].kind = "exit_json" /\ ~desired[p].check_mode)
        => (result[p].changed <=> Cardinality(MutatingCalls(p)) = 1)

(* C14: a supplied password triggers Update.  With state=present, the        *)
(* account found, its permissions equal to the effective desired set, a      *)
(* password supplied and no check mode, the run calls                        *)
(* modify_cluster_admin(account_id, password, effective access) and, the     *)
(* call succeeding, returns changed=true.                                    *)
C14_PasswordTriggersUpdate ==
    \A p \in Callers :
        (/\ LookedUp(p)
         /\ pc[p] = "done"
         /\ obj[p].state = "present"
         /\ ~desired[p].check_mode
         /\ Found(local[p].account_detail)
         /\ desired[p].account_password # None
         /\ ToSet(local[p].account_detail.access) = EffectiveAccess(desired[p]))
        => /\ Cardinality(MutatingCalls(p)) = 1
           /\ LastCall(p).op = "modify_cluster_admin"
           /\ LastCall(p).cluster_admin_id = desired[p].account_id
           /\ LastCall(p).password = desired[p].account_password
           /\ ToSet(LastCall(p).access) = EffectiveAccess(desired[p])
           /\ LastCall(p).ok => result[p].kind = "exit_json" /\ result[p].changed

\* the list_cluster_admins calls of caller p's invocation
ListCalls(p) == {i \in DOMAIN calls[p] : calls[p][i].op = "list_cluster_admins"}

(* C15: call ordering within one invocation.  list_cluster_admins is called  *)
(* at most once, and exactly once in every run that gets past the lookup;    *)
(* it is the first remote call; every create, modify or remove call comes    *)
(* after it, and only when it has returned normally.                         *)
C15_LookupOnceThenMutation ==
    \A p \in Callers :
        /\ Cardinality(ListCalls(p)) <= 1
        /\ calls[p] # <<>> => ListCalls(p) = {1}
        /\ pc[p] \in {"decide", "execute", "exit"} => LookedUp(p)
        /\ result[p].kind = "exit_json" => LookedUp(p)
        /\ \A i \in MutatingCalls(p) : i > 1 /\ LookedUp(p)

\* a run that looked up, then modified, then returned
C15_Witness ==
    \E p \in Callers :
        /\ pc[p] = "done"
        /\ result[p].kind = "exit_json"
        /\ Len(calls[p]) = 2
        /\ calls[p][1].op = "list_cluster_admins"
        /\ calls[p][2].op = "modify_cluster_admin"
        /\ calls[p][2].ok

(* C16: the lookup matches by id only.  When get_user_account_by_id has      *)
(* returned, it has found an account exactly when the cluster holds one      *)
(* whose cluster_admin_id is account_id, and that account is what it         *)
(* returned; with no account_id it has found nothing, whatever the names of  *)
(* the cluster's accounts.                                                   *)
C16_LookupById ==
    \A p \in Callers :
        (pc[p] = "decide" /\ LookedUp(p))
        => LET detail == local[p].account_detail
           IN /\ Found(detail) <=> HasAdmin(cluster, obj[p].account_id)
              /\ obj[p].account_id = NoneId => ~Found(detail)
              /\ Found(detail) => detail.cluster_admin_id = obj[p].account_id
              /\ Found(detail) => detail = cluster[obj[p].account_id]

\* no account_id, an account of the desired name exists, and nothing was found
C16_Witness ==
    \E p \in Callers :
        /\ pc[p] = "decide"
        /\ LookedUp(p)
        /\ obj[p].account_id = NoneId
        /\ obj[p].account_name \in UsedNames(cluster)
        /\ ~Found(local[p].account_detail)

(* C13: check mode reports what a real run does.  For the same desired      *)
(* record on the same cluster, the check-mode run and the real run take the  *)
(* same decision; when both return, they return the same changed; a          *)
(* check-mode changed=false means the real run issues no mutating call and   *)
(* returns changed=false; a check-mode changed=true means the real run       *)
(* returns changed=true unless its remote call fails.                        *)
C13_DryRunAgreesWithRealRun ==
    (pc[1] = "done" /\ pc[2] = "done" /\ LookedUp(1) /\ LookedUp(2))
    => /\ local[1].changed = local[2].changed
       /\ (result[1].kind = "exit_json" /\ result[2].kind = "exit_json")
          => result[1].changed = result[2].changed
       /\ result[1].kind = "exception" <=> result[2].kind = "exception"
       /\ (result[1].kind = "exit_json" /\ ~result[1].changed)
          => /\ result[2].kind = "exit_json"
             /\ ~result[2].changed
             /\ MutatingCalls(2) = {}
       /\ (result[1].kind = "exit_json" /\ result[1].changed)
          => \/ result[2].kind = "exit_json" /\ result[2].changed
             \/ result[2].kind = "fail_json" /\ SomeMutatingCallFailed(2)

\* check mode said changed=true without a call, the real run changed the cluster
C13_Witness ==
    /\ pc[1] = "done"
    /\ pc[2] = "done"
    /\ result[1].kind = "exit_json"
    /\ result[1].changed
    /\ MutatingCalls(1) = {}
    /\ result[2].kind = "exit_json"
    /\ result[2].changed
    /\ Cardinality(MutatingCalls(2)) = 1
    /\ LastCall(2).ok

\* caller p is about to call modify/remove for an account its lookup found and
\* that is no longer in the cluster
LostRace(p) ==
    /\ pc[p] = "execute"
    /\ Found(local[p].account_detail)
    /\ Branch(p) \in {"update_account", "delete_account"}
    /\ ~HasAdmin(cluster, obj[p].account_id)

(* C17: the lookup/execute race.  When the account a run found has been      *)
(* removed by another caller before the run's modify_cluster_admin or        *)
(* remove_cluster_admin call, that call fails and the run ends in fail_json: *)
(* the cluster is left alone, and the run neither retries nor returns a      *)
(* result afterwards.  Two concurrent runs with state=absent on the same id  *)
(* never both return changed=true.                                           *)
C17_LostRaceIsAnError ==
    /\ [][\A p \in Callers :
            (LostRace(p) /\ pc'[p] # pc[p])
            => /\ pc'[p] = "done"
               /\ result'[p].kind = "fail_json"
               /\ ~result'[p].changed
               /\ Len(calls'[p]) = Len(calls[p]) + 1
               /\ ~calls'[p][Len(calls'[p])].ok
               /\ cluster' = cluster]_vars
    /\ [][\A p \in Callers :
            result[p].kind = "fail_json"
            => /\ pc'[p] = pc[p]
               /\ calls'[p] = calls[p]
               /\ result'[p] = result[p]]_vars
    /\ [](\A p, q \in Callers :
            (/\ p # q
             /\ obj[p].state = "absent"
             /\ obj[q].state = "absent"
             /\ obj[p].account_id = obj[q].account_id
             /\ result[p].kind = "exit_json"
             /\ result[q].kind = "exit_json")
            => ~(result[p].changed /\ result[q].changed))

\* two deletes of the same id that both found it: one removed it, the other failed
C17_Witness ==
    \E p, q \in Callers :
        /\ p # q
        /\ obj[p].state = "absent"
        /\ obj[q].state = "absent"
        /\ obj[p].account_id = obj[q].account_id
        /\ Found(local[p].account_detail)
        /\ Found(local[q].account_detail)
        /\ result[q].kind = "exit_json"
        /\ result[q].changed
        /\ LastCall(q).ok
        /\ result[p].kind = "fail_json"
        /\ LastCall(p).op = "remove_cluster_admin"
        /\ ~LastCall(p).ok

=============================================================================
